---- MODULE Spec2Model ----
(***************************************************************************)
(* A model of the chunked event reduction, reweighting, binned-cut         *)
(* evaluation and training driver of ctapipe:                              *)
(*   ctapipe/irf/preprocessing.py   EventPreprocessor, EventLoader         *)
(*   ctapipe/tools/make_irf.py      IrfTool                                *)
(*   ctapipe/tools/train_energy_regressor.py  TrainEnergyRegressor         *)
(*                                                                         *)
(* Six state machines share the module.  Each has its own variables        *)
(* (prefix l, t, w, s, c, i), its own initial condition and next-state        *)
(* relation, and a specification in which the other machines stay idle.    *)
(* Spec runs any one of the six.                                           *)
(***************************************************************************)
EXTENDS Integers, Sequences, FiniteSets, TLC

VARIABLES
    \* EventLoader.load_preselected_events
    lTable,      \* the rows of the input file, in file order
    lCols,       \* the column names of the input file
    lChunkSize,  \* the chunk_size argument
    lPc,         \* "iter" | "chunk" | "done" | "failed"
    lPos,        \* rows already handed out by the chunk iterator
    lReq,        \* chunks requested so far
    lCur,        \* the chunk being processed (rows)
    lCurCols,    \* the column names of the chunk being processed
    lBits,       \* the list `bits`
    lResult      \* what the call returned or raised

lvars == <<lTable, lCols, lChunkSize, lPc, lPos, lReq, lCur, lCurCols, lBits, lResult>>

VARIABLES
    \* TrainEnergyRegressor
    tChunkSize,  \* the chunk_size trait
    tNEvents,    \* the n_events trait: per telescope type, NoneValue or a number
    tPc,         \* "loop" | "iter" | "chunk" | "cv" | "fit" | "done" | "failed"
    tIdx,        \* position of the for loop of start() in the telescope types
    tFile,       \* the subarray events of the input, as seen for the type being read
    tPos,        \* subarray events already handed out by the chunk iterator
    tReq,        \* chunks requested so far for this type
    tCur,        \* the chunk being processed (rows)
    tList,       \* the list `table` of _read_table
    tInFile,     \* n_events_in_file
    tValidInFile,\* n_valid_events_in_file
    tStacked,    \* vstack(table), before the validity drop and the sampling
    tLog,        \* the two counts logged after the loop
    tTable,      \* the table _read_table returned
    tCvDone,     \* telescope types cross validated
    tFitDone,    \* telescope types with a final fit
    tError,      \* the exception that ended the run
    tWritten,    \* what finish() wrote
    tSeed,       \* the random_seed trait
    tRng,        \* the state of self.rng
    tCvOutput,   \* CrossValidator.output_path is configured
    tCvRng,      \* the state of the cross validator's generator
    tWarnings,   \* the warnings _read_table logged for the type being read
    tSample,     \* the sorted indices drawn for the type being read (or NoSample)
    tFolds,      \* the held-out index sets of the folds of the type being trained
    tModels,     \* per telescope type, the table the regressor was last fit on
    tCalls,      \* the calls start() and finish() made, in order
    tTwin        \* a second run of the tool on the same configuration and input:
                 \* its generators, and the table, sample and folds it came to

\* the variables of _read_table's chunk loop and of the loop of start()
treadvars == <<tChunkSize, tNEvents, tPc, tIdx, tFile, tPos, tReq, tCur, tList, tInFile,
               tValidInFile, tStacked, tLog, tTable, tCvDone, tFitDone, tError, tWritten>>

\* the rest of the configuration
tconfvars == <<tSeed, tCvOutput>>

tvars == <<treadvars, tSeed, tRng, tCvOutput, tCvRng, tWarnings, tSample, tFolds,
           tModels, tCalls, tTwin>>

VARIABLES
    \* EventLoader.make_event_weights
    wEvents,     \* the reduced table: true_energy and true_source_fov_offset per row
    wTarget,     \* the flux unit of self.target_spectrum, or "None"
    wWeight,     \* the weight column
    wBefore,     \* the weight column before the last call
    wWritten,    \* the rows whose weight the last call assigned
    wLast,       \* the arguments of the last call
    wRepeat,     \* the last call had the arguments of the call before it
    wStatus,     \* "none" | "ok" | the exception the last call raised
    wCalls       \* calls made

wvars == <<wEvents, wTarget, wWeight, wBefore, wWritten, wLast, wRepeat, wStatus, wCalls>>

VARIABLES
    \* IrfTool.calculate_selections
    sSignal,        \* signal_events: reco_energy, gh_score, theta per row
    sBackground,    \* background_events
    sGhCuts,        \* opt_result.gh_cuts
    sThetaCuts,     \* opt_result.theta_cuts
    sFullEnclosure, \* full_enclosure
    sDoBackground,  \* do_background
    sPc,            \* "ready" | "done"
    sSignalSel,     \* the selection columns of signal_events
    sBackgroundSel  \* the selection columns of background_events

svars == <<sSignal, sBackground, sGhCuts, sThetaCuts, sFullEnclosure, sDoBackground,
           sPc, sSignalSel, sBackgroundSel>>

VARIABLES
    \* a classifier training tool: cross validation, final fit, output
    cTable,      \* the target column (the class labels) of the training table
    cPc,         \* "cv" | "fit" | "finish" | "done" | "failed"
    cCvRng,      \* the state of the cross validator's generator
    cFolds,      \* the held-out index sets of the folds
    cFoldFits,   \* fold models fit
    cFitDone,    \* the final fit was made
    cWritten,    \* the model was written
    cError       \* the message of the exception that ended the run

cvars == <<cTable, cPc, cCvRng, cFolds, cFoldFits, cFitDone, cWritten, cError>>

VARIABLES
    \* IrfTool
    iConf,       \* the configuration and what the cuts file says
    iFiles,      \* the input file of every particle kind
    iPc,         \* "setup" | "start" | "finish" | "done" | "failed"
    iParticles,  \* self.particles, by kind
    iIdx,        \* position of the loop over self.particles
    iLoadCalls,  \* the kinds load_preselected_events was called for
    iReduced,    \* reduced_events
    iSignal,     \* self.signal_events
    iBackground, \* self.background_events
    iSignalSel,  \* the selection columns of the signal table
    iBackgroundSel, \* the selection columns of the background table
    iWritten,    \* the files written
    iError       \* the exception that ended the run

ivars == <<iConf, iFiles, iPc, iParticles, iIdx, iLoadCalls, iReduced, iSignal,
           iBackground, iSignalSel, iBackgroundSel, iWritten, iError>>

vars == <<lvars, tvars, wvars, svars, cvars, ivars>>

\* what a step of one machine leaves alone
notLoad == <<tvars, wvars, svars, cvars, ivars>>
notTrain == <<lvars, wvars, svars, cvars, ivars>>
notWeights == <<lvars, tvars, svars, cvars, ivars>>
notSelections == <<lvars, tvars, wvars, cvars, ivars>>
notClassifier == <<lvars, tvars, wvars, svars, ivars>>
notIrf == <<lvars, tvars, wvars, svars, cvars>>

-----------------------------------------------------------------------------
(* Bounds of the model *)

\* rows of an input table of the event loader
MaxRows == 3
\* largest chunk_size tried
MaxChunkSize == 3
\* subarray events of the training input, per telescope type
MaxSlots == 3
\* largest n_events tried
MaxNEvents == 2
\* rows of a table handed to make_event_weights
MaxWeightRows == 2
\* calls of make_event_weights on one table
MaxCalls == 3
\* rows of the signal table and of the background table
MaxSelRows == 1
\* rows of the training table of a classifier
MaxClassRows == 3
\* rows of the gamma file of the IRF tool
MaxIrfRows == 2

-----------------------------------------------------------------------------
(* Generic helpers *)

Min(a, b) == IF a < b THEN a ELSE b

RECURSIVE SumSeq(_)
SumSeq(s) == IF s = <<>> THEN 0 ELSE Head(s) + SumSeq(Tail(s))

RECURSIVE Flatten(_)
Flatten(ss) == IF ss = <<>> THEN <<>> ELSE Head(ss) \o Flatten(Tail(ss))

Range(s) == {s[i] : i \in DOMAIN s}

\* rows start+1 .. stop of a table (python's table[start:stop])
Slice(s, start, stop) == SubSeq(s, start + 1, stop)

-----------------------------------------------------------------------------
(* The chunk iterator of TableLoader (ctapipe.io, not part of the sources   *)
(* at hand): chunk k covers rows k*chunk_size .. min(n, (k+1)*chunk_size), *)
(* in file order; a table of n rows gives ceil(n / chunk_size) chunks.     *)

ChunkStop(n, chunk_size, start) == Min(n, start + chunk_size)

ChunkExhausted(n, start) == start >= n

-----------------------------------------------------------------------------
(* EventPreprocessor *)

\* The traits are at their defaults: the reconstructor prefixes
\* RandomForestRegressor, HillasReconstructor and RandomForestClassifier,
\* irf_pre_processing True (not configurable), optional_dl3_columns False.

\* keep_columns with irf_pre_processing
keep_columns == <<"obs_id", "event_id", "true_energy", "true_az", "true_alt">>

rename_from == <<"RandomForestRegressor_energy", "HillasReconstructor_az",
                 "HillasReconstructor_alt", "RandomForestClassifier_prediction",
                 "subarray_pointing_lat", "subarray_pointing_lon">>

rename_to == <<"reco_energy", "reco_az", "reco_alt", "gh_score",
               "pointing_alt", "pointing_az">>

\* keep_columns.extend(rename_from): the columns checked, in the order checked
RequiredColumns == keep_columns \o rename_from

\* every column a well-formed input file holds that the loader looks at
InputColumns == Range(RequiredColumns) \cup {"subarray_pointing_frame"}

\* the pointing latitudes are counted in units of 1e-3 deg, so that the
\* limit of the check `std() > 1e-3` is 1
PointingStdLimit == 1

\* events["subarray_pointing_lat"].std() > 1e-3 on the rows of one chunk:
\* the population standard deviation, compared without taking the root:
\*   std > L  <=>  n * sum(x^2) - sum(x)^2 > L^2 * n^2
PointingStdExceeds(rows) ==
    LET n == Len(rows)
        s == SumSeq([i \in 1..n |-> rows[i].lat])
        q == SumSeq([i \in 1..n |-> rows[i].lat * rows[i].lat])
    IN  n * q - s * s > PointingStdLimit * PointingStdLimit * n * n

\* any(events["subarray_pointing_frame"] != ALTAZ)
PointingFrameNotAltAz(rows) == \E i \in 1..Len(rows) : ~rows[i].altaz

\* the first column of RequiredColumns that `cols` lacks ("" when none)
FirstMissing(cols) ==
    LET miss == {i \in 1..Len(RequiredColumns) : RequiredColumns[i] \notin cols}
    IN  IF miss = {} THEN ""
        ELSE RequiredColumns[CHOOSE i \in miss : \A j \in miss : i <= j]

RenamedColumns(cols) == (cols \ Range(rename_from)) \cup Range(rename_to)

\* normalise_column_names on one chunk: the error raised, or the renamed table.
\* A column that is read before the schema check raises KeyError when absent.
normalise_column_names(cols, rows) ==
    IF "subarray_pointing_lat" \notin cols
    THEN [err |-> "KeyError", col |-> "subarray_pointing_lat", cols |-> cols]
    ELSE IF PointingStdExceeds(rows)
    THEN [err |-> "NotImplementedError", col |-> "subarray_pointing_lat", cols |-> cols]
    ELSE IF "subarray_pointing_frame" \notin cols
    THEN [err |-> "KeyError", col |-> "subarray_pointing_frame", cols |-> cols]
    ELSE IF PointingFrameNotAltAz(rows)
    THEN [err |-> "NotImplementedError", col |-> "subarray_pointing_frame", cols |-> cols]
    ELSE IF FirstMissing(cols) # ""
    THEN [err |-> "ValueError", col |-> FirstMissing(cols), cols |-> cols]
    ELSE [err |-> "none", col |-> "", cols |-> RenamedColumns(cols)]

\* keep_nescessary_columns_only: the columns projected to
NecessaryColumns ==
    {"obs_id", "event_id", "true_energy", "true_az", "true_alt",
     "reco_energy", "reco_az", "reco_alt", "reco_fov_lat", "reco_fov_lon",
     "pointing_az", "pointing_alt", "theta", "true_source_fov_offset",
     "reco_source_fov_offset", "gh_score", "weight"}

\* make_empty_table: the columns of the canonical header
HeaderColumns ==
    {"obs_id", "event_id", "true_energy", "true_az", "true_alt",
     "reco_energy", "reco_az", "reco_alt", "reco_fov_lat", "reco_fov_lon",
     "pointing_az", "pointing_alt", "theta", "true_source_fov_offset",
     "reco_source_fov_offset", "gh_score", "weight"}

\* the canonical header: no rows, the reference columns with their units and
\* descriptions (meta "canonical"; a table read from the input carries the
\* metadata of the file, meta "input")
make_empty_table == [cols |-> HeaderColumns, rows |-> <<>>, meta |-> "canonical"]

-----------------------------------------------------------------------------
(* EventLoader *)

\* the placeholder weight 1.0 every row gets
PlaceholderWeight == 1

\* make_derived_columns on one row: the renamed pointing and the placeholder weight
make_derived_columns(row) ==
    [event_id |-> row.event_id, pointing_alt |-> row.lat,
     is_valid |-> row.is_valid, weight |-> PlaceholderWeight]

\* event_selection.calculate_selection: the `selected` column, a predicate of the
\* row alone (the quality criteria are expressions over the row's columns)
calculate_selection(row) == row.is_valid

\* keep_nescessary_columns_only on one row
keep_nescessary_columns_only(row) ==
    [event_id |-> row.event_id, pointing_alt |-> row.pointing_alt, weight |-> row.weight]

\* the columns make_derived_columns adds
DerivedColumns ==
    {"weight", "theta", "true_source_fov_offset", "reco_source_fov_offset",
     "reco_fov_lon", "reco_fov_lat"}

\* the body of the chunk loop after a successful normalise_column_names:
\* derive, select, filter, project.  `cols` are the columns of the renamed
\* chunk; events[keep_columns] raises KeyError when one of them is absent.
ReduceChunk(cols, rows) ==
    LET derived   == [i \in 1..Len(rows) |-> make_derived_columns(rows[i])]
        selected  == SelectSeq(derived, calculate_selection)
        available == cols \cup DerivedColumns \cup {"selected"}
    IN  IF ~(NecessaryColumns \subseteq available)
        THEN [err |-> "KeyError", cols |-> available, rows |-> <<>>, meta |-> "input"]
        ELSE [err |-> "none", cols |-> NecessaryColumns,
              rows |-> [i \in 1..Len(selected) |->
                           keep_nescessary_columns_only(selected[i])],
              meta |-> "input"]

\* a reduced chunk as an element of `bits`
AsBit(reduced) == [cols |-> reduced.cols, rows |-> reduced.rows, meta |-> reduced.meta]

\* (a variant that puts the table in front of the list)
AppendHeaderFirst(bits, header) == <<header>> \o bits

\* bits.append(header)
AppendHeader(bits, header) == Append(bits, header)

\* bits.append(selected)
AppendBit(bits, bit) == Append(bits, bit)

\* a call that raised
Raised(err) == [status |-> "error", err |-> err, rows |-> <<>>, cols |-> {}, meta |-> ""]

\* vstack(bits, join_type="exact", metadata_conflicts="silent"): every table
\* must have the same columns; where the metadata differ the last table wins
vstack_exact(bits) ==
    IF \E i, j \in 1..Len(bits) : bits[i].cols # bits[j].cols
    THEN Raised("TableMergeError")
    ELSE [status |-> "ok", err |-> "none",
          rows |-> Flatten([i \in 1..Len(bits) |-> bits[i].rows]),
          cols |-> bits[1].cols,
          meta |-> bits[Len(bits)].meta]

\* load_preselected_events as a function of the whole input: the chunk loop
\* from row `pos` on with `bits` collected so far
RECURSIVE LoadFrom(_, _, _, _, _)
LoadFrom(table, cols, chunk_size, pos, bits) ==
    IF ChunkExhausted(Len(table), pos)
    THEN vstack_exact(AppendHeader(bits, make_empty_table))
    ELSE LET stop == ChunkStop(Len(table), chunk_size, pos)
             rows == Slice(table, pos, stop)
             norm == normalise_column_names(cols, rows)
             red  == ReduceChunk(norm.cols, rows)
         IN  IF norm.err # "none" THEN Raised(norm.err)
             ELSE IF red.err # "none" THEN Raised(red.err)
             ELSE LoadFrom(table, cols, chunk_size, stop, AppendBit(bits, AsBit(red)))

load_preselected_events(table, cols, chunk_size) ==
    LoadFrom(table, cols, chunk_size, 0, <<make_empty_table>>)

\* --- the inputs

\* pointing latitudes, in units of 1e-3 deg
Lats == {0, 2, 4}

LoadRowKinds == [lat : Lats, altaz : BOOLEAN, is_valid : BOOLEAN]

LoadTables ==
    UNION {{[i \in 1..n |-> [event_id |-> i, lat |-> f[i].lat, altaz |-> f[i].altaz,
                             is_valid |-> f[i].is_valid]] : f \in [1..n -> LoadRowKinds]}
           : n \in 0..MaxRows}

\* a complete schema, or one lacking a single column
Schemas == {InputColumns} \cup {InputColumns \ {c} : c \in InputColumns}

ChunkSizes == 1..MaxChunkSize

NoResult == [status |-> "none", err |-> "none", rows |-> <<>>, cols |-> {}, meta |-> ""]

\* --- the steps of load_preselected_events

InitLoad ==
    /\ lTable \in LoadTables
    /\ lCols \in Schemas
    /\ lChunkSize \in ChunkSizes
    /\ lPc = "iter"
    /\ lPos = 0
    /\ lReq = 0
    /\ lCur = <<>>
    /\ lCurCols = {}
    /\ lBits = <<make_empty_table>>
    /\ lResult = NoResult

IdleLoad ==
    /\ lTable = <<>>
    /\ lCols = {}
    /\ lChunkSize = 1
    /\ lPc = "idle"
    /\ lPos = 0
    /\ lReq = 0
    /\ lCur = <<>>
    /\ lCurCols = {}
    /\ lBits = <<>>
    /\ lResult = NoResult

\* the for statement asks the iterator for the next chunk
LoadNextChunk ==
    /\ lPc = "iter"
    /\ ~ChunkExhausted(Len(lTable), lPos)
    /\ lCur' = Slice(lTable, lPos, ChunkStop(Len(lTable), lChunkSize, lPos))
    /\ lCurCols' = lCols
    /\ lPos' = ChunkStop(Len(lTable), lChunkSize, lPos)
    /\ lReq' = lReq + 1
    /\ lPc' = "chunk"
    /\ UNCHANGED <<lTable, lCols, lChunkSize, lBits, lResult>>
    /\ UNCHANGED notLoad

\* the loop body: normalise, derive, select, filter, project, append
LoadProcessChunk ==
    /\ lPc = "chunk"
    /\ LET norm == normalise_column_names(lCurCols, lCur)
           red  == ReduceChunk(norm.cols, lCur)
       IN  IF norm.err # "none"
           THEN /\ lPc' = "failed"
                /\ lResult' = Raised(norm.err)
                /\ UNCHANGED <<lBits, lCurCols>>
           ELSE IF red.err # "none"
           THEN /\ lPc' = "failed"
                /\ lResult' = Raised(red.err)
                /\ lCurCols' = red.cols
                /\ UNCHANGED lBits
           ELSE /\ lPc' = "iter"
                /\ lBits' = AppendBit(lBits, AsBit(red))
                /\ lCurCols' = red.cols
                /\ UNCHANGED lResult
    /\ UNCHANGED <<lTable, lCols, lChunkSize, lPos, lReq, lCur>>
    /\ UNCHANGED notLoad

\* after the loop: the header goes last, the bits are stacked and returned
LoadStack ==
    /\ lPc = "iter"
    /\ ChunkExhausted(Len(lTable), lPos)
    /\ lBits' = AppendHeader(lBits, make_empty_table)
    /\ lResult' = vstack_exact(lBits')
    /\ lPc' = IF lResult'.status = "ok" THEN "done" ELSE "failed"
    /\ UNCHANGED <<lTable, lCols, lChunkSize, lPos, lReq, lCur, lCurCols>>
    /\ UNCHANGED notLoad

NextLoad == LoadNextChunk \/ LoadProcessChunk \/ LoadStack

-----------------------------------------------------------------------------
(* TrainEnergyRegressor *)

\* loader.subarray.telescope_types
TelescopeTypes == <<"LST", "MST">>

NoneValue == -1

\* A subarray event holds at most one telescope event of the type being read:
\*   "none"    no telescope event of this type
\*   "bad"     a telescope event that fails the quality query
\*   "invalid" one that passes it and has a non-finite feature or target
\*   "valid"   one that passes it and is predictable
SlotKinds == {"none", "bad", "invalid", "valid"}

\* input files with at least one subarray event (the list handed to vstack is
\* then not empty)
TrainFiles ==
    UNION {{[i \in 1..n |-> [event_id |-> i, kind |-> f[i]]] : f \in [1..n -> SlotKinds]}
           : n \in 1..MaxSlots}

\* read_telescope_events(start, stop, telescopes=[type]): the telescope events
\* of the subarray events start .. stop
TelescopeEvents(slots) == SelectSeq(slots, LAMBDA r : r.kind # "none")

\* regressor.quality_query.get_table_mask, row by row
get_table_mask(row) == row.kind \in {"invalid", "valid"}

\* check_valid_rows, row by row
check_valid_rows(row) == row.kind = "valid"

\* (a variant that leaves the mask unapplied)
ApplyMaskNot(rows) == rows

\* (a variant that drops the rows that are not valid along with the mask)
ApplyMaskValid(rows) ==
    SelectSeq(rows, LAMBDA r : get_table_mask(r) /\ check_valid_rows(r))

\* table_chunk = table_chunk[mask]
ApplyMask(rows) == SelectSeq(rows, get_table_mask)

\* (a variant that puts the chunk in front)
AppendChunkFirst(list, chunk) == <<chunk>> \o list

\* table.append(table_chunk)
AppendChunk(list, chunk) == Append(list, chunk)

\* vstack(table)
vstack(list) == Flatten(list)

\* (a variant without the check)
NoEventsLeftUnchecked(table) == FALSE

\* if len(table) == 0: raise TooFewEvents
NoEventsLeft(table) == Len(table) = 0

\* --- the random generators

\* numpy's Generator is a deterministic sequence of states from its seed; it is
\* stood for by a linear congruential generator with a full period
RngModulus == 32

RngMultiplier == 13

RngIncrement == 7

\* the part of a state that a draw uses
RngShift == 4

\* np.random.default_rng(seed)
default_rng(seed) == seed % RngModulus

RngNext(s) == (RngMultiplier * s + RngIncrement) % RngModulus

RemoveAt(seq, j) == [i \in 1..(Len(seq) - 1) |-> IF i < j THEN seq[i] ELSE seq[i + 1]]

\* k draws without replacement from the pool, each advancing the generator
RECURSIVE DrawFrom(_, _, _, _)
DrawFrom(s, pool, k, acc) ==
    IF k = 0 THEN [idx |-> acc, rng |-> s]
    ELSE LET s2 == RngNext(s)
             j  == ((s2 \div RngShift) % Len(pool)) + 1
         IN  DrawFrom(s2, RemoveAt(pool, j), k - 1, Append(acc, pool[j]))

\* rng.choice(n, k, replace=False): k distinct indices (counted from 1 here), in
\* the order drawn, and the generator after the draws
choice(s, n, k) == DrawFrom(s, [i \in 1..n |-> i], k, <<>>)

\* (a variant that leaves the seed out: default_rng() starts from fresh entropy)
SeedGeneratorUnseeded(random_seed, entropy) == default_rng(entropy)

\* self.rng = np.random.default_rng(self.random_seed)
SeedGenerator(random_seed, entropy) == default_rng(random_seed)

\* (a variant without the sort)
SortIndicesSkipped(idx) == idx

\* idx.sort()
SortIndices(idx) == SortSeq(idx, LAMBDA a, b : a < b)

NoSample == [drawn |-> FALSE, idx |-> <<>>]

\* n_events is not None and not n_events > len(table)
Samples(n_events, n_rows) == n_events # NoneValue /\ ~(n_events > n_rows)

\* _read_table from the validity drop on: the table returned, the warnings
\* logged, the indices drawn and the generator afterwards
DropAndSample(stacked, n_events, rng) ==
    LET valid == SelectSeq(stacked, check_valid_rows)
        dropW == IF Len(valid) # Len(stacked) THEN {"Dropping non-predictable events."}
                 ELSE {}
    IN  IF Samples(n_events, Len(valid))
        THEN LET d   == choice(rng, Len(valid), n_events)
                 idx == SortIndices(d.idx)
             IN  [table    |-> [i \in 1..Len(idx) |-> valid[idx[i]]],
                  warnings |-> dropW,
                  sample   |-> [drawn |-> TRUE, idx |-> idx],
                  rng      |-> d.rng]
        ELSE [table    |-> valid,
              warnings |-> dropW \cup
                           (IF n_events # NoneValue
                            THEN {"Number of events in table is less than requested"}
                            ELSE {}),
              sample   |-> NoSample,
              rng      |-> rng]

\* --- the cross validator (ctapipe.reco, not part of the sources at hand)

\* folds of the cross validation (CrossValidator.n_cross_validations)
NFolds == 2

\* the seed of the cross validator's own generator, part of its configuration
CvSeed == 1

\* the cross validator refuses a table with fewer rows than folds
CrossValidatorRefuses(table) == Len(table) < NFolds

\* the size of fold j of n rows, and the number of rows in the folds before it
FoldSize(n, j) == (n \div NFolds) + (IF j <= n % NFolds THEN 1 ELSE 0)

FoldStart(n, j) == (j - 1) * (n \div NFolds) + Min(j - 1, n % NFolds)

\* the held-out rows of fold j: a slice of the shuffled row indices
HeldOut(perm, j) ==
    {perm[i] : i \in (FoldStart(Len(perm), j) + 1)..(FoldStart(Len(perm), j)
                                                      + FoldSize(Len(perm), j))}

\* CrossValidator.__call__: refuse the table, or shuffle the rows with the
\* validator's generator and cut them into the folds.  `labels` are the values
\* of the target column of a classifier.
cross_validate(rng, table, is_classifier, labels) ==
    IF CrossValidatorRefuses(table)
    THEN [status |-> "Too few events", folds |-> <<>>, rng |-> rng]
    ELSE IF is_classifier /\ Cardinality(labels) = 1
    THEN [status |-> "Only one class", folds |-> <<>>, rng |-> rng]
    ELSE LET d == choice(rng, Len(table), Len(table))
         IN  [status |-> "ok",
              folds  |-> [j \in 1..NFolds |-> HeldOut(d.idx, j)],
              rng    |-> d.rng]

\* the rows a fold's model is fit on
FoldTrainingRows(table, held_out) ==
    LET keep == {i \in 1..Len(table) : i \notin held_out}
        F[i \in 0..Len(table)] ==
            IF i = 0 THEN <<>>
            ELSE IF i \in keep THEN Append(F[i - 1], table[i]) ELSE F[i - 1]
    IN  F[Len(table)]

\* --- the tool

NoError == [err |-> "none", tel_type |-> "", msg |-> ""]

CurrentType == TelescopeTypes[tIdx]

NoModel == [fit |-> FALSE, table |-> <<>>]

NoFile == [exists |-> FALSE, types |-> {}]

\* the second run after its setup()
Twin(rng, cv_rng) ==
    [rng |-> rng, cv_rng |-> cv_rng, table |-> <<>>, sample |-> NoSample, folds |-> <<>>]

Call(op, tel_type, table) == [op |-> op, tel_type |-> tel_type, table |-> table]

\* (a variant that hands over the table as it was before the validity drop)
CvArgumentStacked(table, stacked) == stacked

\* self.cross_validate(tel_type, table)
CvArgument(table, stacked) == table

\* (a variant that fits on the table as it was before the sampling)
FitArgumentStacked(table, stacked) == stacked

\* self.regressor.fit(tel_type, table)
FitArgument(table, stacked) == table

\* (a variant that writes the results whatever the configuration)
CvOutputAlways(output_path) == TRUE

\* if self.cross_validate.output_path
CvOutputConfigured(output_path) == output_path

\* (a variant that goes on after the cross validator raised)
CvPassedAlways(status) == TRUE

\* start() goes on to the final fit when the cross validator returned
CvPassed(status) == status = "ok"

Seeds == {0, 1}

\* what a generator made without a seed would start from
Entropies == {2, 3}

InitTrain ==
    /\ tChunkSize \in ChunkSizes
    /\ tNEvents \in [Range(TelescopeTypes) -> {NoneValue} \cup 0..MaxNEvents]
    /\ tSeed \in Seeds
    /\ tCvOutput \in BOOLEAN
    \* setup(): the components are made, the generator is seeded
    /\ tPc = "loop"
    /\ tIdx = 1
    /\ tFile = <<>>
    /\ tPos = 0
    /\ tReq = 0
    /\ tCur = <<>>
    /\ tList = <<>>
    /\ tInFile = 0
    /\ tValidInFile = 0
    /\ tStacked = <<>>
    /\ tLog = <<NoneValue, NoneValue>>
    /\ tTable = <<>>
    /\ tCvDone = {}
    /\ tFitDone = {}
    /\ tError = NoError
    /\ tWritten = [model |-> NoFile, cv |-> NoFile]
    /\ tRng \in {SeedGenerator(tSeed, e) : e \in Entropies}
    /\ tCvRng = default_rng(CvSeed)
    /\ tWarnings = {}
    /\ tSample = NoSample
    /\ tFolds = <<>>
    /\ tModels = [t \in Range(TelescopeTypes) |-> NoModel]
    /\ tCalls = <<>>
    /\ tTwin \in {Twin(SeedGenerator(tSeed, e), default_rng(CvSeed)) : e \in Entropies}

IdleTrain ==
    /\ tChunkSize = 1
    /\ tNEvents = [t \in Range(TelescopeTypes) |-> NoneValue]
    /\ tSeed = 0
    /\ tCvOutput = FALSE
    /\ tPc = "idle"
    /\ tIdx = 1
    /\ tFile = <<>>
    /\ tPos = 0
    /\ tReq = 0
    /\ tCur = <<>>
    /\ tList = <<>>
    /\ tInFile = 0
    /\ tValidInFile = 0
    /\ tStacked = <<>>
    /\ tLog = <<NoneValue, NoneValue>>
    /\ tTable = <<>>
    /\ tCvDone = {}
    /\ tFitDone = {}
    /\ tError = NoError
    /\ tWritten = [model |-> NoFile, cv |-> NoFile]
    /\ tRng = 0
    /\ tCvRng = 0
    /\ tWarnings = {}
    /\ tSample = NoSample
    /\ tFolds = <<>>
    /\ tModels = [t \in Range(TelescopeTypes) |-> NoModel]
    /\ tCalls = <<>>
    /\ tTwin = Twin(0, 0)

\* start(): the for loop takes the next telescope type and calls _read_table,
\* which creates the chunk iterator and the empty list and counters
TrainBeginRead ==
    /\ tPc = "loop"
    /\ tIdx <= Len(TelescopeTypes)
    /\ tFile' \in TrainFiles
    /\ tPos' = 0
    /\ tReq' = 0
    /\ tCur' = <<>>
    /\ tList' = <<>>
    /\ tInFile' = 0
    /\ tValidInFile' = 0
    /\ tStacked' = <<>>
    /\ tLog' = <<NoneValue, NoneValue>>
    /\ tTable' = <<>>
    /\ tWarnings' = {}
    /\ tSample' = NoSample
    /\ tFolds' = <<>>
    /\ tTwin' = Twin(tTwin.rng, tTwin.cv_rng)
    /\ tCalls' = Append(tCalls, Call("read", CurrentType, <<>>))
    /\ tPc' = "iter"
    /\ UNCHANGED <<tChunkSize, tNEvents, tIdx, tCvDone, tFitDone, tError, tWritten>>
    /\ UNCHANGED <<tconfvars, tRng, tCvRng, tModels>>
    /\ UNCHANGED notTrain

\* _read_table: the for statement asks the iterator for the next chunk
TrainNextChunk ==
    /\ tPc = "iter"
    /\ ~ChunkExhausted(Len(tFile), tPos)
    /\ tCur' = TelescopeEvents(Slice(tFile, tPos, ChunkStop(Len(tFile), tChunkSize, tPos)))
    /\ tPos' = ChunkStop(Len(tFile), tChunkSize, tPos)
    /\ tReq' = tReq + 1
    /\ tPc' = "chunk"
    /\ UNCHANGED <<tChunkSize, tNEvents, tIdx, tFile, tList, tInFile, tValidInFile,
                   tStacked, tLog, tTable, tCvDone, tFitDone, tError, tWritten>>
    /\ UNCHANGED <<tconfvars, tRng, tCvRng, tWarnings, tSample, tFolds, tModels,
                   tCalls, tTwin>>
    /\ UNCHANGED notTrain

\* _read_table: the loop body: count, mask, count, project, append
TrainProcessChunk ==
    /\ tPc = "chunk"
    /\ tInFile' = tInFile + Len(tCur)
    /\ tValidInFile' = tValidInFile + Len(ApplyMask(tCur))
    /\ tList' = AppendChunk(tList, ApplyMask(tCur))
    /\ tPc' = "iter"
    /\ UNCHANGED <<tChunkSize, tNEvents, tIdx, tFile, tPos, tReq, tCur,
                   tStacked, tLog, tTable, tCvDone, tFitDone, tError, tWritten>>
    /\ UNCHANGED <<tconfvars, tRng, tCvRng, tWarnings, tSample, tFolds, tModels,
                   tCalls, tTwin>>
    /\ UNCHANGED notTrain

\* _read_table after the loop: stack, log, TooFewEvents, validity drop, sampling
TrainFinishRead ==
    /\ tPc = "iter"
    /\ ChunkExhausted(Len(tFile), tPos)
    /\ tStacked' = vstack(tList)
    /\ tLog' = <<tInFile, tValidInFile>>
    /\ IF NoEventsLeft(tStacked')
       THEN /\ tError' = [err |-> "TooFewEvents", tel_type |-> CurrentType,
                          msg |-> "No events after quality query"]
            /\ tPc' = "failed"
            /\ tTable' = <<>>
            /\ UNCHANGED <<tWarnings, tSample, tRng, tTwin>>
       ELSE /\ LET r  == DropAndSample(tStacked', tNEvents[CurrentType], tRng)
                   r2 == DropAndSample(tStacked', tNEvents[CurrentType], tTwin.rng)
               IN  /\ tTable' = r.table
                   /\ tWarnings' = r.warnings
                   /\ tSample' = r.sample
                   /\ tRng' = r.rng
                   /\ tTwin' = [tTwin EXCEPT !.rng = r2.rng, !.table = r2.table,
                                             !.sample = r2.sample]
            /\ tPc' = "cv"
            /\ UNCHANGED tError
    /\ UNCHANGED <<tChunkSize, tNEvents, tIdx, tFile, tPos, tReq, tCur, tList, tInFile,
                   tValidInFile, tCvDone, tFitDone, tWritten>>
    /\ UNCHANGED <<tconfvars, tCvRng, tFolds, tModels, tCalls>>
    /\ UNCHANGED notTrain

\* start(): self.cross_validate(tel_type, table): the validator refuses the
\* table, or fits and scores one model per fold
TrainCrossValidate ==
    /\ tPc = "cv"
    /\ LET arg == CvArgument(tTable, tStacked)
           r   == cross_validate(tCvRng, arg, FALSE, {})
           r2  == cross_validate(tTwin.cv_rng, CvArgument(tTwin.table, tStacked), FALSE, {})
       IN  /\ tCvRng' = r.rng
           /\ tFolds' = r.folds
           /\ tTwin' = [tTwin EXCEPT !.cv_rng = r2.rng, !.folds = r2.folds]
           /\ tCalls' = tCalls \o <<Call("cv", CurrentType, arg)>> \o
                        [j \in 1..Len(r.folds) |->
                            Call("fold_fit", CurrentType, FoldTrainingRows(arg, r.folds[j]))]
           /\ IF CvPassed(r.status)
              THEN /\ tCvDone' = tCvDone \cup {CurrentType}
                   /\ tPc' = "fit"
                   /\ UNCHANGED tError
              ELSE /\ tError' = [err |-> "ValueError", tel_type |-> CurrentType,
                                 msg |-> r.status]
                   /\ tPc' = "failed"
                   /\ UNCHANGED tCvDone
    /\ UNCHANGED <<tChunkSize, tNEvents, tIdx, tFile, tPos, tReq, tCur, tList, tInFile,
                   tValidInFile, tStacked, tLog, tTable, tFitDone, tWritten>>
    /\ UNCHANGED <<tconfvars, tRng, tWarnings, tSample, tModels>>
    /\ UNCHANGED notTrain

\* start(): self.regressor.fit(tel_type, table), then the next telescope type
TrainFit ==
    /\ tPc = "fit"
    /\ tFitDone' = tFitDone \cup {CurrentType}
    /\ tModels' = [tModels EXCEPT ![CurrentType] =
                      [fit |-> TRUE, table |-> FitArgument(tTable, tStacked)]]
    /\ tCalls' = Append(tCalls, Call("fit", CurrentType, FitArgument(tTable, tStacked)))
    /\ tIdx' = tIdx + 1
    /\ tPc' = "loop"
    /\ UNCHANGED <<tChunkSize, tNEvents, tFile, tPos, tReq, tCur, tList, tInFile,
                   tValidInFile, tStacked, tLog, tTable, tCvDone, tError, tWritten>>
    /\ UNCHANGED <<tconfvars, tRng, tCvRng, tWarnings, tSample, tFolds, tTwin>>
    /\ UNCHANGED notTrain

\* finish(): write the models, and the cross validation results when their
\* output path is configured
TrainFinish ==
    /\ tPc = "loop"
    /\ tIdx > Len(TelescopeTypes)
    /\ tWritten' =
          [model |-> [exists |-> TRUE,
                      types  |-> {t \in Range(TelescopeTypes) : tModels[t].fit}],
           cv    |-> IF CvOutputConfigured(tCvOutput)
                     THEN [exists |-> TRUE,
                           types  |-> tCvDone]
                     ELSE NoFile]
    /\ tCalls' = tCalls \o <<Call("write_model", "", <<>>)>> \o
                 (IF CvOutputConfigured(tCvOutput)
                  THEN <<Call("write_cv", "", <<>>)>> ELSE <<>>)
    /\ tPc' = "done"
    /\ UNCHANGED <<tChunkSize, tNEvents, tIdx, tFile, tPos, tReq, tCur, tList, tInFile,
                   tValidInFile, tStacked, tLog, tTable, tCvDone, tFitDone, tError>>
    /\ UNCHANGED <<tconfvars, tRng, tCvRng, tWarnings, tSample, tFolds, tModels, tTwin>>
    /\ UNCHANGED notTrain

NextTrain ==
    \/ TrainBeginRead \/ TrainNextChunk \/ TrainProcessChunk \/ TrainFinishRead
    \/ TrainCrossValidate \/ TrainFit \/ TrainFinish

-----------------------------------------------------------------------------
(* EventLoader.make_event_weights *)

\* A weight is the quotient num / den of two fluxes, kept as the pair.
\* pyirf's PowerLaw, on the energies of the model: the target spectrum falls
\* with index -2, the simulated one with index -1.
TargetFlux(e) == 12 \div (e * e)

SimulatedFlux(e) == 2 \div e

\* PowerLaw.integrate_cone(low, high): the normalisation times the solid angle
\* of the annulus, which grows with high^2 - low^2
ConeFactor(low, high) == high * high - low * low

\* pyirf's calculate_event_weights for one energy: target over simulated flux
calculate_event_weights(e, factor) == <<TargetFlux(e), SimulatedFlux(e) * factor>>

\* (a variant that scales the weight already there)
AssignWeightScaled(old, new) == <<old[1] * new[1], old[2] * new[2]>>

\* events["weight"][...] = ...: the assignment replaces the weight
AssignWeight(old, new) == new

\* the condition of the if statement: a point-like gamma target over a diffuse
\* simulation
NeedsOffsetBins(kind, target, spectrum) ==
    kind = "gammas" /\ target = "point" /\ spectrum = "diffuse"

\* the loop over zip(fov_offset_bins[:-1], fov_offset_bins[1:]), from bin k on
RECURSIVE WeightBins(_, _, _, _)
WeightBins(events, edges, k, acc) ==
    IF k >= Len(edges)
    THEN acc
    ELSE LET low  == edges[k]
             high == edges[k + 1]
             mask == {i \in 1..Len(events) :
                         events[i].offset >= low /\ events[i].offset < high}
         IN  WeightBins(events, edges, k + 1,
                 [weight  |-> [i \in 1..Len(events) |->
                                  IF i \in mask
                                  THEN AssignWeight(acc.weight[i],
                                           calculate_event_weights(events[i].energy,
                                                                   ConeFactor(low, high)))
                                  ELSE acc.weight[i]],
                  written |-> acc.written \cup mask])

\* make_event_weights: the status, the weight column and the rows assigned.
\* In the else branch calculate_event_weights converts the quotient to a plain
\* number, which fails when the two fluxes do not have the same unit.
make_event_weights(events, weight, target, spectrum, kind, bins) ==
    IF target = "None"
    THEN [status |-> "Exception", weight |-> weight, written |-> {}]
    ELSE IF NeedsOffsetBins(kind, target, spectrum)
    THEN IF ~bins.given
         THEN [status |-> "ValueError", weight |-> weight, written |-> {}]
         ELSE LET r == WeightBins(events, bins.edges, 1, [weight |-> weight, written |-> {}])
              IN  [status |-> "ok", weight |-> r.weight, written |-> r.written]
    ELSE IF target # spectrum
    THEN [status |-> "UnitConversionError", weight |-> weight, written |-> {}]
    ELSE [status |-> "ok",
          weight |-> [i \in 1..Len(events) |->
                         AssignWeight(weight[i], calculate_event_weights(events[i].energy, 1))],
          written |-> 1..Len(events)]

\* --- the inputs

Energies == {1, 2}

Offsets == {0, 1, 2}

WeightTables ==
    UNION {[1..n -> [energy : Energies, offset : Offsets]] : n \in 1..MaxWeightRows}

FluxUnits == {"point", "diffuse"}

Kinds == {"gammas", "protons", "electrons"}

NoBins == [given |-> FALSE, edges |-> <<>>]

OffsetBinChoices ==
    {NoBins, [given |-> TRUE, edges |-> <<0, 1, 2>>], [given |-> TRUE, edges |-> <<0, 3>>]}

CallArgs == [spectrum : FluxUnits, kind : Kinds, bins : OffsetBinChoices]

NoCall == [spectrum |-> "none", kind |-> "none", bins |-> NoBins]

InitWeights ==
    /\ wEvents \in WeightTables
    /\ wTarget \in FluxUnits \cup {"None"}
    /\ wWeight = [i \in 1..Len(wEvents) |-> <<PlaceholderWeight, 1>>]
    /\ wBefore = wWeight
    /\ wWritten = {}
    /\ wLast = NoCall
    /\ wRepeat = FALSE
    /\ wStatus = "none"
    /\ wCalls = 0

IdleWeights ==
    /\ wEvents = <<>>
    /\ wTarget = "None"
    /\ wWeight = <<>>
    /\ wBefore = <<>>
    /\ wWritten = {}
    /\ wLast = NoCall
    /\ wRepeat = FALSE
    /\ wStatus = "idle"
    /\ wCalls = 0

\* one call of make_event_weights on the table
MakeEventWeights ==
    /\ wStatus # "idle"
    /\ wCalls < MaxCalls
    /\ \E args \in CallArgs :
          LET r == make_event_weights(wEvents, wWeight, wTarget,
                                      args.spectrum, args.kind, args.bins)
          IN  /\ wWeight' = r.weight
              /\ wWritten' = r.written
              /\ wStatus' = r.status
              /\ wRepeat' = (args = wLast)
              /\ wLast' = args
    /\ wBefore' = wWeight
    /\ wCalls' = wCalls + 1
    /\ UNCHANGED <<wEvents, wTarget>>
    /\ UNCHANGED notWeights

NextWeights == MakeEventWeights

-----------------------------------------------------------------------------
(* IrfTool.calculate_selections *)

\* pyirf's evaluate_binned_cut: bins = append(cut_table["low"], cut_table["high"][-1])
BinEdges(cut_table) ==
    [i \in 1..Len(cut_table) |-> cut_table[i].low] \o <<cut_table[Len(cut_table)].high>>

\* the bin of x: the number of edges that are <= x (0: before the first edge)
BinIndex(x, edges) == Cardinality({i \in 1..Len(edges) : edges[i] <= x})

\* the comparison operators the cuts are evaluated with, by name
ApplyOperator(op, a, b) ==
    CASE op = "ge" -> a >= b
      [] op = "le" -> a <= b
      [] op = "gt" -> a > b

\* (a variant with the strict comparison)
GreaterThan == "gt"

\* operator.ge, for the g/h cut
GhOperator == "ge"

\* operator.le, for the theta cut
ThetaOperator == "le"

\* (a variant that takes either cut)
CombineCutsOr(selected_theta, selected_gh) == selected_theta \/ selected_gh

\* selected_theta & selected_gh
CombineCuts(selected_theta, selected_gh) == selected_theta /\ selected_gh

\* evaluate_binned_cut for one row: False outside the bin edges, else
\* op(value, cut of the row's bin)
evaluate_binned_cut(value, bin_value, cut_table, op) ==
    LET k == BinIndex(bin_value, BinEdges(cut_table))
    IN  IF k < 1 \/ k > Len(cut_table) THEN FALSE
        ELSE ApplyOperator(op, value, cut_table[k].cut)

\* the column the cuts are binned in
BinningValue(row) == row.reco_energy

\* calculate_selections for one table: the selection columns of every row
SelectionColumns(events, gh_cuts, theta_cuts, full_enclosure) ==
    [cols |-> IF full_enclosure THEN {"selected_gh", "selected"}
              ELSE {"selected_gh", "selected_theta", "selected"},
     rows |-> [i \in 1..Len(events) |->
        LET gh == evaluate_binned_cut(events[i].gh_score, BinningValue(events[i]),
                                      gh_cuts, GhOperator)
            th == evaluate_binned_cut(events[i].theta, BinningValue(events[i]),
                                      theta_cuts, ThetaOperator)
        IN  IF full_enclosure
            THEN [selected_gh |-> gh, selected_theta |-> FALSE, selected |-> gh]
            ELSE [selected_gh |-> gh, selected_theta |-> th,
                  selected |-> CombineCuts(th, gh)]]]

NoSelection == [cols |-> {}, rows |-> <<>>]

\* --- the inputs

RecoEnergies == 0..4

SelRows == [reco_energy : RecoEnergies, gh_score : {0, 1}, theta : {0, 1}]

SelTables == UNION {[1..n -> SelRows] : n \in 0..MaxSelRows}

\* two bins each; the g/h cuts cover the energies 1..3, the theta cuts 0..3 or 2..4
GhCutTables ==
    {<<[low |-> 1, high |-> 2, cut |-> 1], [low |-> 2, high |-> 3, cut |-> 0]>>,
     <<[low |-> 1, high |-> 2, cut |-> 0], [low |-> 2, high |-> 3, cut |-> 1]>>}

ThetaCutTables ==
    {<<[low |-> 0, high |-> 2, cut |-> 0], [low |-> 2, high |-> 3, cut |-> 1]>>,
     <<[low |-> 2, high |-> 3, cut |-> 1], [low |-> 3, high |-> 4, cut |-> 0]>>}

InitSelections ==
    /\ sSignal \in SelTables
    /\ sDoBackground \in BOOLEAN
    /\ sBackground \in IF sDoBackground THEN SelTables ELSE {<<>>}
    /\ sGhCuts \in GhCutTables
    /\ sThetaCuts \in ThetaCutTables
    /\ sFullEnclosure \in BOOLEAN
    /\ sPc = "ready"
    /\ sSignalSel = NoSelection
    /\ sBackgroundSel = NoSelection

IdleSelections ==
    /\ sSignal = <<>>
    /\ sDoBackground = FALSE
    /\ sBackground = <<>>
    /\ sGhCuts = <<>>
    /\ sThetaCuts = <<>>
    /\ sFullEnclosure = FALSE
    /\ sPc = "idle"
    /\ sSignalSel = NoSelection
    /\ sBackgroundSel = NoSelection

CalculateSelections ==
    /\ sPc = "ready"
    /\ sSignalSel' = SelectionColumns(sSignal, sGhCuts, sThetaCuts, sFullEnclosure)
    /\ sBackgroundSel' = IF sDoBackground
                         THEN SelectionColumns(sBackground, sGhCuts, sThetaCuts, sFullEnclosure)
                         ELSE sBackgroundSel
    /\ sPc' = "done"
    /\ UNCHANGED <<sSignal, sBackground, sGhCuts, sThetaCuts, sFullEnclosure, sDoBackground>>
    /\ UNCHANGED notSelections

NextSelections == CalculateSelections

-----------------------------------------------------------------------------
(* A classifier training tool (ctapipe.tools.train_particle_classifier, not part
   of the sources at hand): its start() and finish() have the shape of those of
   TrainEnergyRegressor, with a model whose target is a class label *)

Labels == {0, 1}

ClassTables == UNION {[1..n -> Labels] : n \in 0..MaxClassRows}

InitClassifier ==
    /\ cTable \in ClassTables
    /\ cPc = "cv"
    /\ cCvRng = default_rng(CvSeed)
    /\ cFolds = <<>>
    /\ cFoldFits = 0
    /\ cFitDone = FALSE
    /\ cWritten = FALSE
    /\ cError = ""

IdleClassifier ==
    /\ cTable = <<>>
    /\ cPc = "idle"
    /\ cCvRng = 0
    /\ cFolds = <<>>
    /\ cFoldFits = 0
    /\ cFitDone = FALSE
    /\ cWritten = FALSE
    /\ cError = ""

\* start(): self.cross_validate(tel_type, table)
ClassifierCrossValidate ==
    /\ cPc = "cv"
    /\ LET r == cross_validate(cCvRng, cTable, TRUE, Range(cTable))
       IN  /\ cCvRng' = r.rng
           /\ cFolds' = r.folds
           /\ cFoldFits' = Len(r.folds)
           /\ IF CvPassed(r.status)
              THEN cPc' = "fit" /\ UNCHANGED cError
              ELSE cPc' = "failed" /\ cError' = r.status
    /\ UNCHANGED <<cTable, cFitDone, cWritten>>
    /\ UNCHANGED notClassifier

\* start(): the final fit
ClassifierFit ==
    /\ cPc = "fit"
    /\ cFitDone' = TRUE
    /\ cPc' = "finish"
    /\ UNCHANGED <<cTable, cCvRng, cFolds, cFoldFits, cWritten, cError>>
    /\ UNCHANGED notClassifier

\* finish(): write the model
ClassifierFinish ==
    /\ cPc = "finish"
    /\ cWritten' = TRUE
    /\ cPc' = "done"
    /\ UNCHANGED <<cTable, cCvRng, cFolds, cFoldFits, cFitDone, cError>>
    /\ UNCHANGED notClassifier

NextClassifier == ClassifierCrossValidate \/ ClassifierFit \/ ClassifierFinish

-----------------------------------------------------------------------------
(* IrfTool: setup, start and finish, run in this order by Tool.run, which
   stops at the first of them that raises *)

\* check_bins_in_range(bins, valid_range): every edge lies in the valid range
check_bins_in_range(bins, valid_range) ==
    \A i \in 1..Len(bins) : bins[i] >= valid_range.min /\ bins[i] <= valid_range.max

\* not self.full_enclosure and "n_events" not in self.opt_result.theta_cuts.colnames
NeedsThetaCut(full_enclosure, theta_colnames) ==
    ~full_enclosure /\ "n_events" \notin theta_colnames

\* a file that was not configured
NoInputFile == [given |-> FALSE, rows |-> <<>>]

\* self.particles: the gammas, then the protons and the electrons that
\* do_background asks for and a file is configured for
Particles(do_background, proton_file, electron_file) ==
    <<"gammas">>
    \o (IF do_background /\ proton_file.given THEN <<"protons">> ELSE <<>>)
    \o (IF do_background /\ electron_file.given THEN <<"electrons">> ELSE <<>>)

\* (a variant that accepts a background analysis without background files)
BackgroundFilesMissingNever(do_background, particles) == FALSE

\* self.do_background and len(self.particles) == 1
BackgroundFilesMissing(do_background, particles) == do_background /\ Len(particles) = 1

\* the exception setup raises, "none" when it returns
SetupError(conf, files) ==
    IF ~check_bins_in_range(conf.reco_energy_bins, conf.valid_energy) THEN "ValueError"
    ELSE IF ~check_bins_in_range(conf.fov_offset_bins, conf.valid_offset) THEN "ValueError"
    ELSE IF NeedsThetaCut(conf.full_enclosure, conf.theta_colnames)
    THEN "ToolConfigurationError"
    ELSE IF BackgroundFilesMissing(conf.do_background,
                Particles(conf.do_background, files.protons, files.electrons))
    THEN "RuntimeError"
    ELSE "none"

\* the loader the tool calls for a particle kind: the reduction of
\* EventLoader.load_preselected_events, its table bound to `evs`
LoadParticle(file, chunk_size) == load_preselected_events(file.rows, InputColumns, chunk_size)

\* the columns of a reduced row the cuts and the response tables read; the
\* projection carries them from the row of the file with the same event_id
IrfEvents(rows, file) ==
    [i \in 1..Len(rows) |->
        [event_id    |-> rows[i].event_id,
         weight      |-> rows[i].weight,
         true_energy |-> file.rows[rows[i].event_id].energy,
         reco_energy |-> file.rows[rows[i].event_id].energy,
         gh_score    |-> file.rows[rows[i].event_id].gh_score,
         theta       |-> 0]]

\* _stack_background: the protons, the electrons, or both stacked
stack_background(reduced, proton_file, electron_file) ==
    IF proton_file.given /\ electron_file.given
    THEN reduced.protons \o reduced.electrons
    ELSE IF proton_file.given THEN reduced.protons
    ELSE reduced.electrons

\* --- the inputs

\* the g/h and theta cuts read from the cuts file, valid from energy 1 to 3
IrfGhCuts == <<[low |-> 1, high |-> 2, cut |-> 1], [low |-> 2, high |-> 3, cut |-> 0]>>

IrfThetaCuts == <<[low |-> 1, high |-> 2, cut |-> 0], [low |-> 2, high |-> 3, cut |-> 1]>>

IrfConfigs ==
    [reco_energy_bins : {<<1, 2, 3>>, <<0, 2, 3>>},
     valid_energy     : {[min |-> 1, max |-> 3]},
     fov_offset_bins  : {<<0, 1, 2>>, <<0, 3>>},
     valid_offset     : {[min |-> 0, max |-> 2]},
     full_enclosure   : BOOLEAN,
     theta_colnames   : {{"low", "high", "cut"}, {"low", "high", "cut", "n_events"}},
     do_background    : BOOLEAN,
     do_benchmarks    : BOOLEAN,
     chunk_size       : 1..2]

IrfRowKinds == [is_valid : BOOLEAN, energy : Energies]

IrfRows(f) ==
    [i \in 1..Len(f) |-> [event_id |-> i, lat |-> 0, altaz |-> TRUE,
                          is_valid |-> f[i].is_valid, energy |-> f[i].energy,
                          gh_score |-> 1]]

GammaFiles ==
    {[given |-> TRUE, rows |-> IrfRows(f)] :
        f \in UNION {[1..n -> IrfRowKinds] : n \in 0..MaxIrfRows}}

BackgroundFiles ==
    {NoInputFile,
     [given |-> TRUE, rows |-> IrfRows(<<[is_valid |-> TRUE, energy |-> 2]>>)]}

NoReduced == [gammas |-> <<>>, protons |-> <<>>, electrons |-> <<>>]

InitIrf ==
    /\ iConf \in IrfConfigs
    /\ iFiles \in [gammas : GammaFiles, protons : BackgroundFiles,
                   electrons : BackgroundFiles]
    /\ iPc = "setup"
    /\ iParticles = <<>>
    /\ iIdx = 1
    /\ iLoadCalls = <<>>
    /\ iReduced = NoReduced
    /\ iSignal = <<>>
    /\ iBackground = <<>>
    /\ iSignalSel = NoSelection
    /\ iBackgroundSel = NoSelection
    /\ iWritten = {}
    /\ iError = "none"

IdleIrf ==
    /\ iConf = [reco_energy_bins |-> <<>>, valid_energy |-> [min |-> 0, max |-> 0],
                fov_offset_bins |-> <<>>, valid_offset |-> [min |-> 0, max |-> 0],
                full_enclosure |-> FALSE, theta_colnames |-> {}, do_background |-> FALSE,
                do_benchmarks |-> FALSE, chunk_size |-> 1]
    /\ iFiles = [gammas |-> NoInputFile, protons |-> NoInputFile, electrons |-> NoInputFile]
    /\ iPc = "idle"
    /\ iParticles = <<>>
    /\ iIdx = 1
    /\ iLoadCalls = <<>>
    /\ iReduced = NoReduced
    /\ iSignal = <<>>
    /\ iBackground = <<>>
    /\ iSignalSel = NoSelection
    /\ iBackgroundSel = NoSelection
    /\ iWritten = {}
    /\ iError = "none"

\* --- the steps of the tool

\* setup(): the checks and the list of particles
IrfSetup ==
    /\ iPc = "setup"
    /\ LET err == SetupError(iConf, iFiles)
       IN  IF err # "none"
           THEN /\ iPc' = "failed"
                /\ iError' = err
                /\ UNCHANGED iParticles
           ELSE /\ iPc' = "start"
                /\ iParticles' = Particles(iConf.do_background, iFiles.protons,
                                           iFiles.electrons)
                /\ UNCHANGED iError
    /\ UNCHANGED <<iConf, iFiles, iIdx, iLoadCalls, iReduced, iSignal, iBackground,
                   iSignalSel, iBackgroundSel, iWritten>>
    /\ UNCHANGED notIrf

\* start(), one pass of the loop over self.particles: the events of the kind
\* are loaded and kept in reduced_events
IrfLoad ==
    /\ iPc = "start"
    /\ iIdx <= Len(iParticles)
    /\ LET kind == iParticles[iIdx]
           r    == LoadParticle(iFiles[kind], iConf.chunk_size)
       IN  /\ iLoadCalls' = Append(iLoadCalls, kind)
           /\ IF r.status = "error"
              THEN /\ iPc' = "failed"
                   /\ iError' = r.err
                   /\ UNCHANGED <<iReduced, iIdx>>
              ELSE /\ iReduced' = [iReduced EXCEPT ![kind] = IrfEvents(r.rows, iFiles[kind])]
                   /\ iIdx' = iIdx + 1
                   /\ UNCHANGED <<iPc, iError>>
    /\ UNCHANGED <<iConf, iFiles, iParticles, iSignal, iBackground, iSignalSel,
                   iBackgroundSel, iWritten>>
    /\ UNCHANGED notIrf

\* start(), after the loop: the signal and the background tables are taken from
\* reduced_events, calculate_selections adds the selection columns and the
\* response tables are built from the tables
IrfSelect ==
    /\ iPc = "start"
    /\ iIdx > Len(iParticles)
    /\ LET background == IF iConf.do_background
                         THEN stack_background(iReduced, iFiles.protons, iFiles.electrons)
                         ELSE iBackground
       IN  /\ iSignal' = iReduced.gammas
           /\ iBackground' = background
           /\ iSignalSel' = SelectionColumns(iReduced.gammas, IrfGhCuts, IrfThetaCuts,
                                             iConf.full_enclosure)
           /\ iBackgroundSel' = IF iConf.do_background
                                THEN SelectionColumns(background, IrfGhCuts, IrfThetaCuts,
                                                      iConf.full_enclosure)
                                ELSE iBackgroundSel
    /\ iPc' = "finish"
    /\ UNCHANGED <<iConf, iFiles, iParticles, iIdx, iLoadCalls, iReduced, iWritten, iError>>
    /\ UNCHANGED notIrf

\* finish(): the output file, and the benchmark file with do_benchmarks
IrfFinish ==
    /\ iPc = "finish"
    /\ iWritten' = {"output"} \cup (IF iConf.do_benchmarks THEN {"benchmark"} ELSE {})
    /\ iPc' = "done"
    /\ UNCHANGED <<iConf, iFiles, iParticles, iIdx, iLoadCalls, iReduced, iSignal,
                   iBackground, iSignalSel, iBackgroundSel, iError>>
    /\ UNCHANGED notIrf

NextIrf == IrfSetup \/ IrfLoad \/ IrfSelect \/ IrfFinish

-----------------------------------------------------------------------------
(* Specifications *)

InitL == InitLoad /\ IdleTrain /\ IdleWeights /\ IdleSelections /\ IdleClassifier /\ IdleIrf

SpecLoad == InitL /\ [][NextLoad]_vars

InitT == IdleLoad /\ InitTrain /\ IdleWeights /\ IdleSelections /\ IdleClassifier /\ IdleIrf

SpecTrain == InitT /\ [][NextTrain]_vars

InitW == IdleLoad /\ IdleTrain /\ InitWeights /\ IdleSelections /\ IdleClassifier /\ IdleIrf

SpecWeights == InitW /\ [][NextWeights]_vars

InitS == IdleLoad /\ IdleTrain /\ IdleWeights /\ InitSelections /\ IdleClassifier /\ IdleIrf

SpecSelections == InitS /\ [][NextSelections]_vars

\* the two reducers
InitR == InitL \/ InitT

NextReducers == NextLoad \/ NextTrain

SpecReducers == InitR /\ [][NextReducers]_vars

InitC == IdleLoad /\ IdleTrain /\ IdleWeights /\ IdleSelections /\ InitClassifier /\ IdleIrf

\* the two training tools
InitTC == InitT \/ InitC

NextTrainers == NextTrain \/ NextClassifier

SpecTrainers == InitTC /\ [][NextTrainers]_vars

InitI == IdleLoad /\ IdleTrain /\ IdleWeights /\ IdleSelections /\ IdleClassifier /\ InitIrf

SpecIrf == InitI /\ [][NextIrf]_vars

\* any one of the five
Init == InitL \/ InitT \/ InitW \/ InitS \/ InitC \/ InitI

Next == NextLoad \/ NextTrain \/ NextWeights \/ NextSelections \/ NextClassifier \/ NextIrf

Spec == Init /\ [][Next]_vars

-----------------------------------------------------------------------------
(* The claims *)

Ids(rows) == [i \in 1..Len(rows) |-> rows[i].event_id]

StrictlyIncreasing(ids) == \A i, j \in 1..Len(ids) : i < j => ids[i] < ids[j]

SameOutcome(a, b) == a.status = b.status /\ (a.status = "ok" => a.rows = b.rows)

\* C1: load_preselected_events is chunk-size invariant: whatever the call with
\* the chunk size at hand returned or raised, the call on the same table with any
\* other chunk size fails too, or returns the same rows with the same values.
C1_ChunkSizeInvariant ==
    lPc \in {"done", "failed"} =>
        \A c \in ChunkSizes :
            SameOutcome(lResult, load_preselected_events(lTable, lCols, c))

\* _read_table is past its chunk loop for the input at hand
ReadFinished == tLog[1] # NoneValue

QualityRows(file) == SelectSeq(TelescopeEvents(file), get_table_mask)

\* C2: in _read_table the concatenation of the filtered chunks, before the
\* validity drop and the sampling, holds exactly the rows of the input that pass
\* the quality query, whatever the chunk size, and the logged count of rows after
\* the quality query is their number.
C2_StackedIsQualityFiltered ==
    ReadFinished =>
        /\ tStacked = QualityRows(tFile)
        /\ tLog[2] = Len(QualityRows(tFile))
        /\ tLog[1] = Len(TelescopeEvents(tFile))

\* C2 witness: several chunks were read, some rows passed and some did not
C2_Witness ==
    /\ ReadFinished
    /\ tReq >= 2
    /\ tChunkSize >= 2
    /\ Len(tStacked) >= 1
    /\ Len(tStacked) < Len(TelescopeEvents(tFile))

\* C3: both reducers take the chunks in source order, have chunk i fully
\* processed (its filtered rows appended) before chunk i+1 is requested, and the
\* concatenated table lists the retained rows in the order of the source.
C3_SourceOrder ==
    /\ lPc = "chunk" =>
          /\ Len(lBits) = lReq
          /\ lCur = Slice(lTable, (lReq - 1) * lChunkSize,
                          Min(Len(lTable), lReq * lChunkSize))
    /\ lPc = "iter" => Len(lBits) = lReq + 1
    /\ lPc \in {"iter", "chunk", "done"} =>
          StrictlyIncreasing(Ids(Flatten([i \in 1..Len(lBits) |-> lBits[i].rows])))
    /\ lPc = "done" =>
          lResult.rows = [i \in 1..Len(SelectSeq(lTable, calculate_selection)) |->
                            keep_nescessary_columns_only(make_derived_columns(
                                SelectSeq(lTable, calculate_selection)[i]))]
    /\ tPc = "chunk" =>
          /\ Len(tList) = tReq - 1
          /\ tCur = TelescopeEvents(Slice(tFile, (tReq - 1) * tChunkSize,
                                          Min(Len(tFile), tReq * tChunkSize)))
    /\ tPc = "iter" => Len(tList) = tReq
    /\ tPc \in {"iter", "chunk"} => StrictlyIncreasing(Ids(Flatten(tList)))
    /\ ReadFinished => StrictlyIncreasing(Ids(tStacked))

\* C3 witness: a stacked table with rows of two different chunks
C3_Witness ==
    /\ ReadFinished
    /\ tChunkSize = 1
    /\ tReq >= 2
    /\ Len(tStacked) >= 2

\* C4: a chunk that lacks a required column makes normalise_column_names fail
\* with the schema error (ValueError, "Required column ... is missing") before
\* any column is renamed, and load_preselected_events returns no table.
C4_MissingColumnIsSchemaError ==
    \A c \in Range(RequiredColumns) :
        (c \notin lCols /\ lReq >= 1 /\ lPc # "chunk") =>
            /\ lPc = "failed"
            /\ lResult.status = "error"
            /\ lResult.err = "ValueError"
            /\ lCurCols = lCols

BinsOf(i) ==
    {k \in 1..(Len(wLast.bins.edges) - 1) :
        /\ wEvents[i].offset >= wLast.bins.edges[k]
        /\ wEvents[i].offset < wLast.bins.edges[k + 1]}

\* the flux ratio the last call owes row i
RatioOwed(i) ==
    IF NeedsOffsetBins(wLast.kind, wTarget, wLast.spectrum)
    THEN {calculate_event_weights(wEvents[i].energy,
              ConeFactor(wLast.bins.edges[k], wLast.bins.edges[k + 1])) : k \in BinsOf(i)}
    ELSE {calculate_event_weights(wEvents[i].energy, 1)}

\* C6: after make_event_weights returns normally every row's weight has been
\* rewritten to the target/simulated flux ratio at its true energy (with the
\* simulated spectrum integrated over the row's offset bin in the per-bin case);
\* no row keeps the weight it had.
C6_EveryRowReweighted ==
    wStatus = "ok" =>
        \A i \in 1..Len(wEvents) : i \in wWritten /\ wWeight[i] \in RatioOwed(i)

\* C7: a point-like target over a diffuse simulation without offset
\* bins raises the configuration error and leaves the weights as they were.
C7_PointLikeNeedsBins ==
    (wCalls >= 1 /\ wTarget = "point" /\ wLast.spectrum = "diffuse" /\ ~wLast.bins.given) =>
        /\ wStatus = "ValueError"
        /\ wWeight = wBefore
        /\ wWritten = {}

\* C8: make_event_weights is idempotent: a call with the arguments of the call
\* before it leaves the weight column that call left.
C8_Idempotent == wRepeat => wWeight = wBefore

\* C8 witness: the per-bin weighting applied twice, one row outside the bins
C8_Witness ==
    /\ wRepeat
    /\ wStatus = "ok"
    /\ wLast.bins.given
    /\ wWritten # {}
    /\ wWritten # 1..Len(wEvents)

OutsideEdges(x, cut_table) ==
    x < cut_table[1].low \/ x > cut_table[Len(cut_table)].high

\* the tables calculate_selections worked on, with their selection columns
SelectedTables ==
    {<<sSignal, sSignalSel>>} \cup
    (IF sDoBackground THEN {<<sBackground, sBackgroundSel>>} ELSE {})

\* C9: a signal or background row whose reconstructed energy lies before the
\* first or after the last bin edge of the g/h cut table has selected = false in
\* both modes, whatever its gh_score and theta; in point-like mode the same holds
\* for the edges of the theta cut table.
C9_OutsideBinsNotSelected ==
    sPc = "done" =>
        \A t \in SelectedTables :
            /\ Len(t[2].rows) = Len(t[1])
            /\ \A i \in 1..Len(t[1]) :
                  /\ OutsideEdges(t[1][i].reco_energy, sGhCuts) => ~t[2].rows[i].selected
                  /\ (~sFullEnclosure /\ OutsideEdges(t[1][i].reco_energy, sThetaCuts))
                        => ~t[2].rows[i].selected

\* C9 witness: a point-like selection of a row below the g/h bins that passes the
\* theta cut of its theta bin
C9_Witness ==
    /\ sPc = "done"
    /\ ~sFullEnclosure
    /\ \E i \in 1..Len(sSignal) :
          /\ OutsideEdges(sSignal[i].reco_energy, sGhCuts)
          /\ sSignal[i].gh_score = 1
          /\ sSignalSel.rows[i].selected_theta
          /\ ~sSignalSel.rows[i].selected

\* the cut of the bin [low, high) that holds the energy is passed
PassesGh(row, cut_table) ==
    \E k \in 1..Len(cut_table) :
        /\ cut_table[k].low <= row.reco_energy
        /\ row.reco_energy < cut_table[k].high
        /\ row.gh_score >= cut_table[k].cut

PassesTheta(row, cut_table) ==
    \E k \in 1..Len(cut_table) :
        /\ cut_table[k].low <= row.reco_energy
        /\ row.reco_energy < cut_table[k].high
        /\ row.theta <= cut_table[k].cut

\* C10: after calculate_selections, for every row of the signal table and (with
\* do_background) of the background table: selected_gh is gh_score >= the cut of
\* the row's bin; in full-enclosure mode selected = selected_gh; in point-like
\* mode selected_theta is theta <= the cut of the row's bin, both columns are
\* kept, and selected = selected_gh and selected_theta; both tables are cut with
\* the same cut tables and operators.
C10_SelectedColumns ==
    sPc = "done" =>
        /\ \A t \in SelectedTables :
              /\ Len(t[2].rows) = Len(t[1])
              /\ "selected_gh" \in t[2].cols /\ "selected" \in t[2].cols
              /\ ~sFullEnclosure => "selected_theta" \in t[2].cols
              /\ \A i \in 1..Len(t[1]) :
                    /\ t[2].rows[i].selected_gh = PassesGh(t[1][i], sGhCuts)
                    /\ sFullEnclosure =>
                          t[2].rows[i].selected = t[2].rows[i].selected_gh
                    /\ ~sFullEnclosure =>
                          /\ t[2].rows[i].selected_theta = PassesTheta(t[1][i], sThetaCuts)
                          /\ t[2].rows[i].selected =
                                (t[2].rows[i].selected_gh /\ t[2].rows[i].selected_theta)
        /\ ~sDoBackground => sBackgroundSel = NoSelection

\* C10 witness: a point-like selection with background, a selected signal row
\* and a background row that passes the g/h cut and fails the theta cut
C10_Witness ==
    /\ sPc = "done"
    /\ ~sFullEnclosure
    /\ sDoBackground
    /\ \E i \in 1..Len(sSignal) : sSignalSel.rows[i].selected
    /\ \E i \in 1..Len(sBackground) :
          /\ sBackgroundSel.rows[i].selected_gh
          /\ ~sBackgroundSel.rows[i].selected_theta
          /\ ~sBackgroundSel.rows[i].selected

\* the rows load_preselected_events is to retain, reduced
RetainedRows(table) ==
    [i \in 1..Len(SelectSeq(table, calculate_selection)) |->
        keep_nescessary_columns_only(make_derived_columns(
            SelectSeq(table, calculate_selection)[i]))]

\* C20: in load_preselected_events the canonical empty header is the last
\* element of the concatenation and is appended only once the chunks are
\* consumed (until then every element after the first came from a chunk); the
\* header has no rows; keep_nescessary_columns_only keeps exactly the columns of
\* make_empty_table, so that a call whose chunks all normalise never fails in the
\* projection or the exact join, and returns exactly the retained rows under the
\* canonical columns and metadata, also with no row or no chunk retained.
C20_HeaderLast ==
    /\ NecessaryColumns = HeaderColumns
    /\ make_empty_table.rows = <<>>
    /\ lPc \in {"iter", "chunk"} =>
          /\ lBits[1] = make_empty_table
          /\ \A i \in 2..Len(lBits) : lBits[i].meta = "input"
    /\ lPc = "failed" =>
          /\ normalise_column_names(lCols, lCur).err # "none"
          /\ lResult.err = normalise_column_names(lCols, lCur).err
    /\ lPc = "done" =>
          /\ Len(lBits) = lReq + 2
          /\ lBits[Len(lBits)] = make_empty_table
          /\ lResult.status = "ok"
          /\ lResult.cols = HeaderColumns
          /\ lResult.meta = "canonical"
          /\ lResult.rows = RetainedRows(lTable)

\* C20 witness: two chunks were reduced and no row of them was retained
C20_Witness ==
    /\ lPc = "done"
    /\ lReq >= 2
    /\ lTable # <<>>
    /\ lResult.rows = <<>>
    /\ lResult.meta = "canonical"

\* the calls of one kind made for a telescope type, in the order made
CallsOf(op, tel_type) == SelectSeq(tCalls, LAMBDA c : c.op = op /\ c.tel_type = tel_type)

\* C11: the cross validation of a table of N rows with k folds, N at least k,
\* fits and scores exactly k folds, and the held-out row index sets of the folds
\* are pairwise disjoint and together are all the rows of the table (the rows
\* are counted from 1 here, from 0 in the code).
C11_FoldsPartition ==
    tPc = "fit" =>
        /\ Len(tTable) >= NFolds
        /\ Len(tFolds) = NFolds
        /\ Len(CallsOf("fold_fit", CurrentType)) = NFolds
        /\ \A i, j \in 1..Len(tFolds) : i # j => tFolds[i] \cap tFolds[j] = {}
        /\ UNION {tFolds[j] : j \in 1..Len(tFolds)} = 1..Len(tTable)

\* C11 witness: the table of the second telescope type was cross validated, with
\* more rows than folds and folds of different sizes
C11_Witness ==
    /\ tPc = "fit"
    /\ tIdx = 2
    /\ Len(tTable) > NFolds
    /\ \E i, j \in 1..Len(tFolds) : Cardinality(tFolds[i]) # Cardinality(tFolds[j])

\* C12: the cross validator refuses an unusable training table before anything is
\* fit: a table with fewer rows than folds raises the 'Too few events' error, and
\* the table of a classifier whose target holds one class only raises the 'Only
\* one class' error; in both cases no fold is fit, the final fit is not made and
\* no model is written.
C12_UnusableTableRefused ==
    /\ (/\ ReadFinished
        /\ tPc # "cv"
        /\ tError.err # "TooFewEvents"
        /\ Len(tTable) < NFolds) =>
            /\ tPc = "failed"
            /\ tError = [err |-> "ValueError", tel_type |-> CurrentType,
                         msg |-> "Too few events"]
            /\ CallsOf("fold_fit", CurrentType) = <<>>
            /\ CallsOf("fit", CurrentType) = <<>>
            /\ ~tModels[CurrentType].fit
            /\ ~tWritten.model.exists
    /\ (cPc \notin {"idle", "cv"} /\ Len(cTable) < NFolds) =>
            /\ cPc = "failed"
            /\ cError = "Too few events"
            /\ cFoldFits = 0 /\ ~cFitDone /\ ~cWritten
    /\ (cPc \notin {"idle", "cv"} /\ Cardinality(Range(cTable)) = 1) =>
            /\ cPc = "failed"
            /\ cError \in {"Too few events", "Only one class"}
            /\ Len(cTable) >= NFolds => cError = "Only one class"
            /\ cFoldFits = 0 /\ ~cFitDone /\ ~cWritten

\* C12 witness (too few events): the second telescope type is refused after the
\* first was trained
C12_Witness ==
    /\ tPc = "failed"
    /\ tIdx = 2
    /\ tError.msg = "Too few events"
    /\ Len(tTable) = 1
    /\ tModels[TelescopeTypes[1]].fit

\* C12, the other case reached (only one class): a classifier's table with rows
\* enough for the folds, all of one class, is refused
C12_WitnessOneClass ==
    /\ cPc = "failed"
    /\ cError = "Only one class"
    /\ Len(cTable) > NFolds

\* the positions in tCalls of the calls of one kind made for a telescope type
CallPositions(op, tel_type) ==
    {i \in 1..Len(tCalls) : tCalls[i].op = op /\ tCalls[i].tel_type = tel_type}

\* C13: for every telescope type start() reads the table, cross validates it and
\* then makes the final fit, in this order; the final fit is made once per type,
\* after all the folds of the type, on the table that was cross validated (all
\* its rows); the types are taken one after the other, and the model finish()
\* writes holds what these final fits produced.
C13_ReadCvFitOrder ==
    /\ \A t \in Range(TelescopeTypes) :
          /\ Cardinality(CallPositions("fit", t)) <= 1
          /\ Cardinality(CallPositions("cv", t)) <= 1
          /\ Cardinality(CallPositions("read", t)) <= 1
          /\ \A c \in CallPositions("cv", t) : \E r \in CallPositions("read", t) : r < c
          /\ \A f \in CallPositions("fold_fit", t) : \E c \in CallPositions("cv", t) : c < f
          /\ \A p \in CallPositions("fit", t) :
                /\ Cardinality(CallPositions("fold_fit", t)) = NFolds
                /\ \A f \in CallPositions("fold_fit", t) : f < p
                /\ \E c \in CallPositions("cv", t) :
                      c < p /\ tCalls[c].table = tCalls[p].table
                /\ tModels[t] = [fit |-> TRUE, table |-> tCalls[p].table]
          /\ CallPositions("fit", t) = {} => ~tModels[t].fit
    /\ \A i, j \in 1..Len(tCalls) :
          (tCalls[i].tel_type = TelescopeTypes[2] /\ tCalls[j].tel_type = TelescopeTypes[1])
              => j < i
    /\ \A w \in CallPositions("write_model", "") :
          \A t \in Range(TelescopeTypes) : \E p \in CallPositions("fit", t) : p < w
    /\ tWritten.model.exists =>
          /\ tPc = "done"
          /\ tWritten.model.types = Range(TelescopeTypes)
          /\ \A t \in Range(TelescopeTypes) : tModels[t].fit

\* C13 witness: both types were trained and the model written, the second type on
\* a table that sampling had shortened
C13_Witness ==
    /\ tPc = "done"
    /\ tWritten.model.exists
    /\ tSample.drawn
    /\ Len(tTable) < Len(tStacked)
    /\ tModels[TelescopeTypes[2]].table = tTable

\* C14: finish() always writes the trained model, and writes the cross validation
\* results if and only if the cross validator has an output path; with the path
\* configured the results exist after a run that succeeded.  Nothing is written
\* before finish().
C14_FinishOutputs ==
    /\ tPc = "done" =>
          /\ tWritten.model.exists
          /\ tWritten.cv.exists <=> tCvOutput
          /\ Cardinality(CallPositions("write_model", "")) = 1
          /\ Cardinality(CallPositions("write_cv", "")) = (IF tCvOutput THEN 1 ELSE 0)
    /\ tPc # "done" => ~tWritten.model.exists /\ ~tWritten.cv.exists

\* C14 witness: a run without an output path for the results wrote the model only
C14_Witness ==
    /\ tPc = "done"
    /\ ~tCvOutput
    /\ tWritten.model.exists
    /\ ~tWritten.cv.exists

TableReturned == tPc \in {"cv", "fit"} \/ (tPc = "failed" /\ tError.err = "ValueError")

ValidRows(rows) == SelectSeq(rows, check_valid_rows)

\* C16: rows with a non-finite feature or target never make _read_table fail:
\* they pass through the chunk loop, where they are in the filtered chunks and in
\* the counts of rows after the quality query, and are dropped with a warning
\* only once all chunks are filtered and stacked; every row of the table returned
\* is valid.
C16_InvalidRowsDroppedLate ==
    /\ tPc = "iter" =>
          /\ Flatten(tList) = QualityRows(Slice(tFile, 0, tPos))
          /\ tValidInFile = Len(Flatten(tList))
          /\ tWarnings = {}
    /\ ReadFinished =>
          /\ tLog[2] = Len(QualityRows(tFile))
          /\ tStacked = QualityRows(tFile)
          /\ QualityRows(tFile) # <<>> => tError.err # "TooFewEvents"
    /\ TableReturned =>
          /\ \A i \in 1..Len(tTable) : check_valid_rows(tTable[i])
          /\ ~tSample.drawn => tTable = ValidRows(QualityRows(tFile))
          /\ ("Dropping non-predictable events." \in tWarnings)
                <=> (ValidRows(tStacked) # tStacked)

\* C16 witness: two chunks each held a row that passes the quality query and is
\* not valid; both were counted, then dropped, and a valid row was returned
C16_Witness ==
    /\ tPc = "cv"
    /\ tChunkSize = 1
    /\ tLog[2] = 3
    /\ Len(tTable) = 1
    /\ "Dropping non-predictable events." \in tWarnings

\* C17: every table _read_table returns has at least one row.
C17_ReturnedTableNotEmpty == TableReturned => Len(tTable) >= 1

\* the increasing index sequences a sorted draw of k out of n without
\* replacement can be
SortedChoices(n, k) ==
    {idx \in [1..k -> 1..n] : \A i, j \in 1..k : i < j => idx[i] < idx[j]}

\* C18: with n_events configured and not above the number of valid rows, the
\* table returned has exactly n_events rows, each a different row of the reduced
\* table, in the order of the reduced table; with n_events unset or above the
\* number of valid rows the reduced table is returned as it is, in the latter
\* case with a warning.
C18_Sampling ==
    TableReturned =>
        LET valid == ValidRows(tStacked)
            n     == tNEvents[CurrentType]
        IN  IF n # NoneValue /\ n <= Len(valid)
            THEN /\ tSample.drawn
                 /\ Len(tTable) = n
                 /\ tSample.idx \in SortedChoices(Len(valid), n)
                 /\ tTable = [i \in 1..n |-> valid[tSample.idx[i]]]
                 /\ StrictlyIncreasing(Ids(tTable))
            ELSE /\ ~tSample.drawn
                 /\ tTable = valid
                 /\ ("Number of events in table is less than requested" \in tWarnings)
                       <=> (n # NoneValue)

\* C18 witness: two of three valid rows were drawn, not the first two
C18_Witness ==
    /\ tPc = "fit"
    /\ tSample.drawn
    /\ Len(tSample.idx) = 2
    /\ Len(ValidRows(tStacked)) = 3
    /\ tSample.idx # <<1, 2>>
    /\ Ids(tTable) # <<1, 2>>

\* C19: the sample drawn for a telescope type does not depend on the telescope
\* types read before it: it is the sample drawn for it when no type before it
\* drew anything, that is, by a generator fresh from the seed.
C19_SampleIndependentOfOrder ==
    (TableReturned /\ tSample.drawn) =>
        tSample.idx = SortIndices(choice(default_rng(tSeed), Len(ValidRows(tStacked)),
                                         tNEvents[CurrentType]).idx)

-----------------------------------------------------------------------------
(* The response-tabulation flow *)

\* the weight column of a table, as quotients
WeightColumn(table) == [i \in 1..Len(table) |-> <<table[i].weight, 1>>]

\* the target spectrum of a population: a point source for the gammas, a
\* diffuse flux for the protons and the electrons
PopulationTarget(kind) == IF kind = "gammas" THEN "point" ELSE "diffuse"

\* the weight column make_event_weights writes for a population simulated
\* over the field of view, from the placeholders
Reweighted(table, kind) ==
    make_event_weights([i \in 1..Len(table) |->
                           [energy |-> table[i].true_energy, offset |-> 0]],
                       [i \in 1..Len(table) |-> <<PlaceholderWeight, 1>>],
                       PopulationTarget(kind), "diffuse", kind,
                       [given |-> TRUE, edges |-> iConf.fov_offset_bins]).weight

\* calculate_selections has run
CutsEvaluated == iPc \in {"finish", "done"}

OutsideValidRange(conf) ==
    \/ \E i \in 1..Len(conf.reco_energy_bins) :
          \/ conf.reco_energy_bins[i] < conf.valid_energy.min
          \/ conf.reco_energy_bins[i] > conf.valid_energy.max
    \/ \E i \in 1..Len(conf.fov_offset_bins) :
          \/ conf.fov_offset_bins[i] < conf.valid_offset.min
          \/ conf.fov_offset_bins[i] > conf.valid_offset.max

\* a point-like analysis without an optimized theta cut
PointLikeWithoutThetaCut(conf) ==
    ~conf.full_enclosure /\ "n_events" \notin conf.theta_colnames

\* a background analysis without a proton and without an electron file
BackgroundWithoutFiles(conf, files) ==
    conf.do_background /\ ~files.protons.given /\ ~files.electrons.given

\* C22: a configuration with output bins outside the range the cuts are valid
\* in, a point-like analysis without an optimized theta cut, or do_background
\* without a proton and an electron file is rejected by setup: the run ends with
\* the error (ToolConfigurationError for the missing theta cut) before any
\* events are loaded and before anything is written; start and finish are never
\* reached.
C22_SetupRejects ==
    (iPc # "idle" /\ (\/ OutsideValidRange(iConf)
                      \/ PointLikeWithoutThetaCut(iConf)
                      \/ BackgroundWithoutFiles(iConf, iFiles))) =>
        /\ iPc \in {"setup", "failed"}
        /\ iLoadCalls = <<>>
        /\ iWritten = {}
        /\ iSignalSel = NoSelection /\ iBackgroundSel = NoSelection
        /\ iPc = "failed" =>
              iError = IF OutsideValidRange(iConf) THEN "ValueError"
                       ELSE IF PointLikeWithoutThetaCut(iConf)
                       THEN "ToolConfigurationError"
                       ELSE "RuntimeError"

\* C22 witness: setup has refused a background analysis without background
\* files whose bins and theta cut are in order
C22_Witness ==
    /\ iPc = "failed"
    /\ iError = "RuntimeError"
    /\ iConf.do_background
    /\ ~iFiles.protons.given /\ ~iFiles.electrons.given
    /\ iLoadCalls = <<>>

\* C22 witness: setup has refused a point-like analysis without a theta cut
C22_WitnessThetaCut ==
    /\ iPc = "failed"
    /\ iError = "ToolConfigurationError"
    /\ ~iConf.full_enclosure
    /\ iWritten = {}

\* a consistent configuration runs to the end and writes its output
C22_WitnessAccepted ==
    /\ iPc = "done"
    /\ "output" \in iWritten
    /\ iConf.do_background
    /\ Len(iLoadCalls) = 3

====
